---- MODULE Spec2Model ----
(***************************************************************************)
(* Smart Fuel Planner: the trip-planning operation (route lookup, cost     *)
(* estimate, nearby-station ranking), the map page's best-price mark, the  *)
(* trip history store and its monthly aggregation, and the page machine    *)
(* that drives them (src/index.tsx, src/types.ts).                         *)
(*                                                                         *)
(* JavaScript numbers are modelled as exact rationals [num, den] in lowest *)
(* terms; NaN, Infinity, null and undefined are records of their own, and  *)
(* so is Number.MIN_VALUE, the one number whose quotients overflow.        *)
(* Latitudes are counted in arcs of 100 m along one meridian (one unit is  *)
(* 1/(10 R) radian), where the haversine formula of calculateDistance      *)
(* reduces to R * |dLat|.                                                  *)
(***************************************************************************)
EXTENDS Integers, Sequences, FiniteSets, TLC

VARIABLES
    currentPage,            \* App: useState<Page>
    tripResult,             \* App: useState<TripResult | null>
    loading,                \* App: useState<boolean>
    hasGenAIKey,            \* App: useState<boolean>
    googleMapsInitialized,  \* App: useState<boolean>
    googleMapsLoadError,    \* App: useState<boolean>
    aistudio,               \* whether window.aistudio exists
    initPending,            \* the step of initializeApp that runs next
    inflight,               \* planning operations awaiting a collaborator
    placesLog,              \* the last place-search response delivered
    alertMsg,               \* the last window.alert message
    mapView,                \* what the mounted MapPage has drawn
    historyView,            \* the mounted HistoryPage's state
    localStorage,           \* localStorage['tripHistory']
    mockedFuelStations,     \* the MOCKED_FUEL_STATIONS array as it stands
    clock                   \* the wall clock read by handleSaveTrip

vars == <<currentPage, tripResult, loading, hasGenAIKey, googleMapsInitialized,
          googleMapsLoadError, aistudio, initPending, inflight, placesLog, alertMsg,
          mapView, historyView, localStorage, mockedFuelStations, clock>>

-----------------------------------------------------------------------------
(* Bounds of the model *)

MaxPlaces == 2
MaxHistory == 3
MaxSaves == 2

-----------------------------------------------------------------------------
(* Values of the language *)

Null == [null |-> TRUE]
Undefined == [undefined |-> TRUE]
NaN == [nan |-> TRUE]
Infinity == [infinity |-> TRUE]

\* Number.MIN_VALUE (5e-324), the least number above 0 that parseFloat yields:
\* x / MIN_VALUE exceeds Number.MAX_VALUE, and so is Infinity, for every x
\* above 9e-16
MIN_VALUE == [min_value |-> TRUE]

-----------------------------------------------------------------------------
(* Numbers *)

Abs(x) == IF x < 0 THEN -x ELSE x

RECURSIVE GCD(_, _)
GCD(a, b) == IF b = 0 THEN a ELSE GCD(b, a % b)

\* the rational n/d (d # 0) in lowest terms with a positive denominator
Rat(n, d) ==
    LET g == GCD(Abs(n), Abs(d))
        s == IF d < 0 THEN -1 ELSE 1
    IN  [num |-> (s * n) \div g, den |-> (s * d) \div g]

Num(n) == Rat(n, 1)
RAdd(a, b) == Rat(a.num * b.den + b.num * a.den, a.den * b.den)
RSub(a, b) == Rat(a.num * b.den - b.num * a.den, a.den * b.den)
RMul(a, b) == Rat(a.num * b.num, a.den * b.den)
RDiv(a, b) == Rat(a.num * b.den, a.den * b.num)
RLess(a, b) == a.num * b.den < b.num * a.den
RLeq(a, b) == a.num * b.den <= b.num * a.den
RSign(a) == IF a.num < 0 THEN -1 ELSE IF a.num > 0 THEN 1 ELSE 0

-----------------------------------------------------------------------------
(* src/types.ts: enums and constants *)

FuelType == {"Petrol", "Diesel", "Hybrid", "EV"}

Page == {"SPLASH", "HOME", "RESULTS", "MAP", "HISTORY"}

DEFAULT_MILEAGE == 15

MOCKED_FUEL_PRICES ==
    [f \in FuelType |->
        CASE f = "Petrol" -> Num(280)
          [] f = "Diesel" -> Num(270)
          [] f = "Hybrid" -> Num(280)
          [] f = "EV"     -> Num(40)]

\* a Location on the modelled meridian
Loc(lat, name) == [lat |-> lat, lng |-> 0, name |-> name]

MOCKED_FUEL_STATIONS ==
    << [id |-> "1", name |-> "Shell Defence",
        location |-> Loc(27598, "Shell Defence, Karachi"),
        fuelPrice |-> RMul(MOCKED_FUEL_PRICES["Petrol"], Rat(98, 100))],
       [id |-> "2", name |-> "PSO Cantt",
        location |-> Loc(27604, "PSO Cantt, Karachi"),
        fuelPrice |-> MOCKED_FUEL_PRICES["Petrol"]],
       [id |-> "3", name |-> "Total Clifton",
        location |-> Loc(27616, "Total Clifton, Karachi"),
        fuelPrice |-> RMul(MOCKED_FUEL_PRICES["Petrol"], Rat(102, 100))],
       [id |-> "4", name |-> "Go Petroleum DHA",
        location |-> Loc(27582, "Go Petroleum DHA, Karachi"),
        fuelPrice |-> RMul(MOCKED_FUEL_PRICES["Petrol"], Rat(95, 100))],
       [id |-> "5", name |-> "Hascol Korangi",
        location |-> Loc(27600, "Hascol Korangi, Karachi"),
        fuelPrice |-> RMul(MOCKED_FUEL_PRICES["Diesel"], Rat(99, 100))],
       [id |-> "6", name |-> "EV Charge Point Gizri",
        location |-> Loc(27610, "EV Charge Point Gizri, Karachi"),
        fuelPrice |-> RMul(MOCKED_FUEL_PRICES["EV"], Rat(11, 10))] >>

INITIAL_TRIP_DATA ==
    [carModel |-> "", fuelType |-> "Petrol",
     averageMileage |-> Num(DEFAULT_MILEAGE),
     startLocation |-> Loc(0, ""), destination |-> Loc(0, ""),
     preferredSpeedRange |-> ""]

-----------------------------------------------------------------------------
(* App.calculateDistance *)

R == 6371

\* With dLon = 0 the haversine term a is sin^2(dLat/2), so the central angle
\* c = 2 atan2(sqrt a, sqrt(1 - a)) is |dLat| radians: |dLat| / (10 R) here.
calculateDistance_signed(loc1, loc2) ==
    LET dLat == loc2.lat - loc1.lat
        c    == Rat(dLat, 10 * R)
    IN  RMul(Num(R), c)

calculateDistance(loc1, loc2) ==
    LET dLat == loc2.lat - loc1.lat
        c    == Rat(Abs(dLat), 10 * R)
    IN  RMul(Num(R), c)

-----------------------------------------------------------------------------
(* App.handlePlanTrip: the cost estimate *)

\* data.averageMileage > 0, false for NaN
MileagePositive(m) ==
    IF m = NaN THEN FALSE ELSE IF m = MIN_VALUE THEN TRUE ELSE RSign(m) > 0

fuelPricePerUnit_petrol(data) == MOCKED_FUEL_PRICES["Petrol"]

fuelPricePerUnit(data) == MOCKED_FUEL_PRICES[data.fuelType]

\* distanceKm / data.averageMileage
UnitsNeeded_times(distanceKm, mileage) == RMul(distanceKm, mileage)

UnitsNeeded(distanceKm, mileage) ==
    IF mileage = MIN_VALUE
    THEN IF distanceKm = Num(0) THEN Num(0) ELSE Infinity
    ELSE RDiv(distanceKm, mileage)

EstimatedCost(data, distanceKm) ==
    IF MileagePositive(data.averageMileage)
    THEN LET unitsNeeded == UnitsNeeded(distanceKm, data.averageMileage)
         IN  IF unitsNeeded = Infinity THEN Infinity
             ELSE RMul(unitsNeeded, fuelPricePerUnit(data))
    ELSE Num(0)

\* route.distance ? route.distance.value / 1000 : 0
DistanceKm(leg) ==
    IF leg.distance = Undefined THEN Num(0) ELSE Rat(leg.distance.value, 1000)

\* route.duration ? route.duration.text : 'N/A'
EstimatedTime(leg) ==
    IF leg.duration = Undefined THEN "N/A" ELSE leg.duration.text

-----------------------------------------------------------------------------
(* App.handlePlanTrip: the nearbySearch callback *)

RadiusKm == 10

\* the filter predicate of the primary path
WithinRadius_inclusive(station) ==
    /\ station.distanceKm # Undefined
    /\ RLeq(station.distanceKm, Num(RadiusKm))

WithinRadius(station) ==
    /\ station.distanceKm # Undefined
    /\ RLess(station.distanceKm, Num(RadiusKm))

\* x || Infinity
OrInfinity(x) ==
    IF x = Undefined \/ x = NaN \/ x = Num(0) THEN Infinity ELSE x

\* the sign of (a.distanceKm || Infinity) - (b.distanceKm || Infinity);
\* Infinity - Infinity is NaN, which Array.prototype.sort takes as 0
CompareDistance(a, b) ==
    LET x == OrInfinity(a.distanceKm)
        y == OrInfinity(b.distanceKm)
    IN  CASE x = Infinity /\ y = Infinity -> 0
          [] x = Infinity -> 1
          [] y = Infinity -> -1
          [] OTHER -> RSign(RSub(x, y))

\* Array.prototype.sort is stable: x goes behind every element it does not
\* compare below
RECURSIVE InsertByDistance(_, _)
InsertByDistance(x, sorted) ==
    IF sorted = <<>> THEN <<x>>
    ELSE IF CompareDistance(x, Head(sorted)) < 0 THEN <<x>> \o sorted
    ELSE <<Head(sorted)>> \o InsertByDistance(x, Tail(sorted))

RECURSIVE SortByDistance(_)
SortByDistance(s) ==
    IF s = <<>> THEN <<>>
    ELSE InsertByDistance(s[Len(s)], SortByDistance(SubSeq(s, 1, Len(s) - 1)))

\* MOCKED_FUEL_PRICES[PETROL] * (0.95 + Math.random() * 0.1)
MockPrice(rand) ==
    RMul(MOCKED_FUEL_PRICES["Petrol"], RAdd(Rat(95, 100), RMul(rand, Rat(1, 10))))

\* results.map(place => ...): one station per place, rands[i] the value of
\* Math.random() drawn for the i-th place
PlaceStation(data, place, rand) ==
    LET stationLoc == [lat |-> place.location.lat, lng |-> place.location.lng,
                       name |-> place.name]
    IN  [id |-> place.place_id, name |-> place.name, location |-> stationLoc,
         fuelPrice |-> MockPrice(rand),
         distanceKm |-> calculateDistance(data.destination, stationLoc)]

PrimaryStations(data, results, rands) ==
    LET mapped == [i \in 1..Len(results) |-> PlaceStation(data, results[i], rands[i])]
    IN  SortByDistance(SelectSeq(mapped, WithinRadius))

\* MOCKED_FUEL_STATIONS.map(mockStation => ({...mockStation, distanceKm: ...}))
MockStationsWithDistance(data) ==
    [i \in 1..Len(mockedFuelStations) |->
        [id |-> mockedFuelStations[i].id,
         name |-> mockedFuelStations[i].name,
         location |-> mockedFuelStations[i].location,
         fuelPrice |-> mockedFuelStations[i].fuelPrice,
         distanceKm |-> calculateDistance(data.destination,
                                          mockedFuelStations[i].location)]]

FallbackStations_filtered(data) ==
    SortByDistance(SelectSeq(MockStationsWithDistance(data), WithinRadius))

FallbackStations(data) == SortByDistance(MockStationsWithDistance(data))

\* the MOCKED_FUEL_STATIONS array after the fallback branch: map() returns a
\* new array of new objects, and it is that array which sort() reorders
MockListAfterFallback_sortedInPlace(data) == FallbackStations(data)

MockListAfterFallback(data) == mockedFuelStations

\* status === google.maps.places.PlacesServiceStatus.OK && results
SearchSucceeded_zeroOk(response) ==
    response.status \in {"OK", "ZERO_RESULTS"} /\ response.results # Null

SearchSucceeded(response) ==
    response.status = "OK" /\ response.results # Null

NearbyStations(data, response, rands) ==
    IF SearchSucceeded(response)
    THEN PrimaryStations(data, response.results.places, rands)
    ELSE FallbackStations(data)

-----------------------------------------------------------------------------
(* MapPage: the best-price mark *)

\* tripResult.nearbyStations.forEach(station => { if (!cheapestStation ||
\*   station.fuelPrice < cheapestStation.fuelPrice) cheapestStation = station })
RECURSIVE CheapestFrom(_, _)
CheapestFrom(cheapestStation, stations) ==
    IF stations = <<>> THEN cheapestStation
    ELSE LET station == Head(stations)
         IN  IF cheapestStation = Null
                \/ RLess(station.fuelPrice, cheapestStation.fuelPrice)
             THEN CheapestFrom(station, Tail(stations))
             ELSE CheapestFrom(cheapestStation, Tail(stations))

CheapestStation_default(stations) == CheapestFrom(MOCKED_FUEL_STATIONS[1], stations)

CheapestStation(stations) == CheapestFrom(Null, stations)

\* the ids of the markers drawn with the green icon
GreenMarkers(stations) ==
    LET cheapestStation == CheapestStation(stations)
    IN  IF cheapestStation = Null THEN {}
        ELSE {stations[i].id : i \in {j \in 1..Len(stations) :
                                        stations[j].id = cheapestStation.id}}

\* nearbyStations.reduce((prev, curr) =>
\*   (prev.fuelPrice < curr.fuelPrice ? prev : curr), nearbyStations[0])
RECURSIVE ReduceCheapest(_, _)
ReduceCheapest(prev, stations) ==
    IF stations = <<>> THEN prev
    ELSE LET curr == Head(stations)
         IN  ReduceCheapest(IF RLess(prev.fuelPrice, curr.fuelPrice) THEN prev ELSE curr,
                            Tail(stations))

\* the ids of the station cards that show the 'Cheapest' badge; the reduce is
\* evaluated once per card, so never for an empty list
BadgeCards(stations) ==
    IF stations = <<>> THEN {}
    ELSE LET best == ReduceCheapest(stations[1], stations)
         IN  {stations[i].id : i \in {j \in 1..Len(stations) :
                                        stations[j].id = best.id}}

Unmounted == [mounted |-> FALSE]

\* what MapPage draws for a trip result
MapRender(result) ==
    [mounted |-> TRUE,
     cheapestStation |-> CheapestStation(result.nearbyStations),
     green |-> GreenMarkers(result.nearbyStations),
     badges |-> BadgeCards(result.nearbyStations),
     cards |-> [i \in 1..Len(result.nearbyStations) |-> result.nearbyStations[i].id]]

-----------------------------------------------------------------------------
(* HistoryPage: calculateMonthlyExpenses *)

MonthShort == <<"Jan", "Feb", "Mar", "Apr", "May", "Jun",
                "Jul", "Aug", "Sep", "Oct", "Nov", "Dec">>

\* new Date(trip.date): trip.date is the text "M/D/YYYY, h:mm:ss" written by
\* toLocaleString(), modelled as <<M, D, YYYY>>
ParseDateString(text) == [year |-> text[3], month |-> text[1], day |-> text[2]]

\* date.toLocaleString('default', {month: 'short', year: 'numeric'})
MonthYear(date) == [mon |-> MonthShort[date.month], year |-> date.year]

\* new Date(label) for a label such as "Jan 2024": the first of that month
ParseMonthYear(label) ==
    [year |-> label.year,
     month |-> CHOOSE m \in 1..12 : MonthShort[m] = label.mon,
     day |-> 1]

\* Date.prototype.getTime, in days since 1 January 1970
GetTime(date) ==
    LET y   == IF date.month <= 2 THEN date.year - 1 ELSE date.year
        era == y \div 400
        yoe == y - era * 400
        mp  == IF date.month > 2 THEN date.month - 3 ELSE date.month + 9
        doy == (153 * mp + 2) \div 5 + date.day - 1
        doe == yoe * 365 + yoe \div 4 - yoe \div 100 + doy
    IN  era * 146097 + doe - 719468

\* the number an operand of + stands for: null counts as 0
ToNumber(x) == IF x = Null THEN Num(0) ELSE x

\* monthly[monthYear] = (monthly[monthYear] || 0) + trip.estimatedCost, the
\* object's keys kept in insertion order
AddToMonth_overwrite(monthly, monthYear, cost) ==
    IF \E i \in 1..Len(monthly) : monthly[i].month = monthYear
    THEN [i \in 1..Len(monthly) |->
            IF monthly[i].month = monthYear
            THEN [month |-> monthYear, cost |-> ToNumber(cost)]
            ELSE monthly[i]]
    ELSE Append(monthly, [month |-> monthYear, cost |-> RAdd(Num(0), ToNumber(cost))])

AddToMonth(monthly, monthYear, cost) ==
    IF \E i \in 1..Len(monthly) : monthly[i].month = monthYear
    THEN [i \in 1..Len(monthly) |->
            IF monthly[i].month = monthYear
            THEN [month |-> monthYear, cost |-> RAdd(monthly[i].cost, ToNumber(cost))]
            ELSE monthly[i]]
    ELSE Append(monthly, [month |-> monthYear, cost |-> RAdd(Num(0), ToNumber(cost))])

\* history.forEach(trip => ...)
RECURSIVE MonthlyTotals(_, _)
MonthlyTotals(monthly, history) ==
    IF history = <<>> THEN monthly
    ELSE LET trip == Head(history)
             date == ParseDateString(trip.date)
         IN  MonthlyTotals(AddToMonth(monthly, MonthYear(date), trip.estimatedCost),
                           Tail(history))

\* the sign of new Date(a.month).getTime() - new Date(b.month).getTime()
CompareMonth_none(a, b) == 0

CompareMonth(a, b) ==
    LET d == GetTime(ParseMonthYear(a.month)) - GetTime(ParseMonthYear(b.month))
    IN  IF d < 0 THEN -1 ELSE IF d > 0 THEN 1 ELSE 0

RECURSIVE InsertByMonth(_, _)
InsertByMonth(x, sorted) ==
    IF sorted = <<>> THEN <<x>>
    ELSE IF CompareMonth(x, Head(sorted)) < 0 THEN <<x>> \o sorted
    ELSE <<Head(sorted)>> \o InsertByMonth(x, Tail(sorted))

RECURSIVE SortByMonth(_)
SortByMonth(s) ==
    IF s = <<>> THEN <<>>
    ELSE InsertByMonth(s[Len(s)], SortByMonth(SubSeq(s, 1, Len(s) - 1)))

calculateMonthlyExpenses(history) == SortByMonth(MonthlyTotals(<<>>, history))

\* JSON.stringify / JSON.parse of the stored array: a number that is not
\* finite is written as null
JsonNumber(x) == IF x = NaN \/ x = Infinity THEN Null ELSE x

JsonStringify(history) ==
    [json |-> [i \in 1..Len(history) |->
        [id |-> history[i].id, date |-> history[i].date,
         carModel |-> history[i].carModel,
         startLocationName |-> history[i].startLocationName,
         destinationName |-> history[i].destinationName,
         distanceKm |-> JsonNumber(history[i].distanceKm),
         estimatedCost |-> JsonNumber(history[i].estimatedCost)]]]

JsonParse(text) == text.json

\* the load effect of HistoryPage
HistoryMount(stored) ==
    IF stored = Null
    THEN [mounted |-> TRUE, tripHistory |-> <<>>, monthlyExpenses |-> <<>>]
    ELSE [mounted |-> TRUE, tripHistory |-> JsonParse(stored),
          monthlyExpenses |-> calculateMonthlyExpenses(JsonParse(stored))]

-----------------------------------------------------------------------------
(* Inputs: trip requests and collaborator responses *)

None == [none |-> TRUE]

StartKarachi == Loc(27644, "Karachi, Pakistan")
\* a destination that is itself a fuel station (the first mock station's place)
DestShell == Loc(27598, "Shell Defence, Karachi")
DestLahore == Loc(35049, "Lahore, Pakistan")

TripData(carModel, fuelType, mileage, start, destination) ==
    [carModel |-> carModel, fuelType |-> fuelType, averageMileage |-> mileage,
     startLocation |-> start, destination |-> destination,
     preferredSpeedRange |-> ""]

\* parseFloat(value) of the mileage field
Mileages == {NaN, Num(-1), Num(0), Num(10), Num(15)}

\* requests handed to App.handlePlanTrip directly
CoreTripData ==
    {TripData("Civic", f, m, StartKarachi, d) :
        f \in FuelType, m \in Mileages, d \in {DestShell, DestLahore}}

\* contents of the HomePage form when Plan My Trip is clicked
FormTripData ==
    {TripData(c, f, m, s, d) :
        c \in {"", "Civic"}, f \in {INITIAL_TRIP_DATA.fuelType},
        m \in (Mileages \ {Num(10)}) \cup {MIN_VALUE},
        s \in {Loc(0, ""), StartKarachi},
        d \in {Loc(0, ""), DestLahore, Loc(DestShell.lat, "")}}

LatLng(loc) == [lat |-> loc.lat, lng |-> loc.lng]

RouteLeg(data, distance, duration) ==
    [distance |-> distance, duration |-> duration,
     overview_path |-> <<LatLng(data.startLocation), LatLng(data.destination)>>]

RouteResolved(status, routes) ==
    [rejected |-> FALSE, message |-> "", status |-> status, routes |-> routes]

RouteRejected(message) ==
    [rejected |-> TRUE, message |-> message, status |-> "", routes |-> <<>>]

\* outcomes of directionsService.route(...)
RouteResponses(data) ==
    {RouteRejected("DIRECTIONS_ROUTE: ZERO_RESULTS"),
     RouteRejected("Requested entity was not found."),
     RouteResolved("NOT_FOUND", <<>>),
     RouteResolved("OK", <<>>),
     RouteResolved("OK", <<RouteLeg(data, Undefined, Undefined)>>),
     RouteResolved("OK", <<RouteLeg(data, [value |-> 0], [text |-> "1 min"])>>),
     RouteResolved("OK", <<RouteLeg(data, [value |-> 12000], [text |-> "15 mins"])>>)}

PlaceIds == <<"p1", "p2", "p3", "p4">>
PlaceNames == <<"Station A", "Station B", "Station C", "Station D">>

\* where a candidate place lies, in 100 m arcs north of the destination
CandidateOffsets == {0, 40, 100, 150}

Places(data, offsets) ==
    [i \in 1..Len(offsets) |->
        [place_id |-> PlaceIds[i], name |-> PlaceNames[i],
         location |-> [lat |-> data.destination.lat + offsets[i],
                       lng |-> data.destination.lng]]]

PlacesResponse(status, results) == [status |-> status, results |-> results]

\* what nearbySearch hands to its callback
PlacesResponses(data, maxPlaces) ==
    {PlacesResponse("OK", [places |-> Places(data, offsets)]) :
        offsets \in UNION {[1..n -> CandidateOffsets] : n \in 0..maxPlaces}}
    \cup {PlacesResponse("ZERO_RESULTS", [places |-> <<>>]),
          PlacesResponse("ZERO_RESULTS", Null),
          PlacesResponse("UNKNOWN_ERROR", Null)}

\* values of Math.random()
RandValues == {Num(0), Rat(1, 2)}

Rands(response) ==
    IF response.results = Null THEN {<<>>}
    ELSE [1..Len(response.results.places) -> RandValues]

ZeroRands(response) ==
    IF response.results = Null THEN <<>>
    ELSE [j \in 1..Len(response.results.places) |-> Num(0)]

-----------------------------------------------------------------------------
(* App: what renderPage shows *)

Rendered(page, result, isLoading, genAIKey, mapsLoadError) ==
    IF isLoading THEN "Spinner"
    ELSE IF page = "SPLASH" THEN "Splash"
    ELSE IF ~genAIKey \/ mapsLoadError THEN "Config"
    ELSE CASE page = "HOME"    -> "Home"
           [] page = "RESULTS" -> IF result # Null THEN "Results" ELSE "Home"
           [] page = "MAP"     -> IF result # Null THEN "Map" ELSE "Home"
           [] page = "HISTORY" -> "History"

Screen == Rendered(currentPage, tripResult, loading, hasGenAIKey, googleMapsLoadError)

\* the page components' own state after a render: a component that leaves the
\* screen is unmounted, MapPage redraws for its tripResult, HistoryPage loads
\* the store when it mounts
Views ==
    /\ mapView' = IF Screen' = "Map" THEN MapRender(tripResult') ELSE Unmounted
    /\ historyView' =
          IF Screen' # "History" THEN Unmounted
          ELSE IF Screen = "History" THEN historyView
          ELSE HistoryMount(localStorage')

appKeys == <<hasGenAIKey, googleMapsInitialized, googleMapsLoadError, aistudio,
             initPending>>

-----------------------------------------------------------------------------
(* App: start-up *)

\* initializeApp, up to the scheduling of the maps check
CheckGenAIKey ==
    /\ initPending = "genai"
    /\ \E selected \in BOOLEAN :
          hasGenAIKey' = (aistudio /\ selected)
    /\ initPending' = "maps"
    /\ UNCHANGED <<currentPage, tripResult, loading, googleMapsInitialized,
                   googleMapsLoadError, aistudio, inflight, placesLog, alertMsg,
                   localStorage, clock>>
    /\ UNCHANGED mockedFuelStations
    /\ Views

\* the mapsCheckTimeout callback
CheckGoogleMaps ==
    /\ initPending = "maps"
    /\ \E loaded \in BOOLEAN :
          /\ googleMapsInitialized' = loaded
          /\ googleMapsLoadError' = IF loaded THEN googleMapsLoadError ELSE TRUE
    /\ initPending' = "done"
    /\ UNCHANGED <<currentPage, tripResult, loading, hasGenAIKey, aistudio,
                   inflight, placesLog, alertMsg, localStorage, clock>>
    /\ UNCHANGED mockedFuelStations
    /\ Views

\* handleSelectGenAIKey, from the configuration screen
SelectGenAIKey ==
    /\ Screen = "Config"
    /\ ~hasGenAIKey
    /\ \E opened \in BOOLEAN :
          hasGenAIKey' = IF aistudio THEN opened ELSE hasGenAIKey
    /\ UNCHANGED <<currentPage, tripResult, loading, googleMapsInitialized,
                   googleMapsLoadError, aistudio, initPending, inflight,
                   placesLog, alertMsg, localStorage, clock>>
    /\ UNCHANGED mockedFuelStations
    /\ Views

\* SplashScreen: the timer's onFinish
SplashFinish_results ==
    /\ Screen = "Splash"
    /\ currentPage' = "RESULTS"
    /\ UNCHANGED <<tripResult, loading, appKeys, inflight, placesLog, alertMsg,
                   localStorage, clock>>
    /\ UNCHANGED mockedFuelStations
    /\ Views

SplashFinish ==
    /\ Screen = "Splash"
    /\ currentPage' = "HOME"
    /\ UNCHANGED <<tripResult, loading, appKeys, inflight, placesLog, alertMsg,
                   localStorage, clock>>
    /\ UNCHANGED mockedFuelStations
    /\ Views

-----------------------------------------------------------------------------
(* Planning a trip *)

NewOperation(data) ==
    [pc |-> "route", data |-> data, distanceKm |-> Undefined,
     estimatedCost |-> Undefined, estimatedTime |-> Undefined,
     routePath |-> Undefined]

Remove(seq, i) == SubSeq(seq, 1, i - 1) \o SubSeq(seq, i + 1, Len(seq))

\* App.handlePlanTrip, up to the await of directionsService.route
AppHandlePlanTrip_noLoading(data, googleLoaded) ==
    IF ~googleLoaded
    THEN /\ alertMsg' = "Google Maps API not loaded. Cannot plan trip."
         /\ loading' = FALSE
         /\ UNCHANGED inflight
    ELSE /\ UNCHANGED loading
         /\ inflight' = Append(inflight, NewOperation(data))
         /\ UNCHANGED alertMsg

AppHandlePlanTrip(data, googleLoaded) ==
    IF ~googleLoaded
    THEN /\ alertMsg' = "Google Maps API not loaded. Cannot plan trip."
         /\ loading' = FALSE
         /\ UNCHANGED inflight
    ELSE /\ loading' = TRUE
         /\ inflight' = Append(inflight, NewOperation(data))
         /\ UNCHANGED alertMsg

\* HomePage: the Plan My Trip button is enabled
isFormValid_noMileage(tripData) ==
    /\ tripData.carModel # ""
    /\ tripData.startLocation.lat # 0
    /\ tripData.destination.lat # 0
    /\ googleMapsInitialized

isFormValid(tripData) ==
    /\ tripData.carModel # ""
    /\ MileagePositive(tripData.averageMileage)
    /\ tripData.startLocation.lat # 0
    /\ tripData.destination.lat # 0
    /\ googleMapsInitialized

\* a JavaScript number is falsy
Falsy(x) == x = NaN \/ x = Num(0)

\* HomePage.handlePlanTrip
HomePlanTrip(tripData) ==
    /\ Screen = "Home"
    /\ isFormValid(tripData)
    /\ IF \/ tripData.carModel = ""
          \/ Falsy(tripData.averageMileage)
          \/ tripData.startLocation.name = ""
          \/ tripData.destination.name = ""
          \/ tripData.startLocation.lat = 0
          \/ tripData.destination.lat = 0
       THEN /\ alertMsg' = "Please fill all trip details!"
            /\ UNCHANGED <<loading, inflight>>
       ELSE AppHandlePlanTrip(tripData, googleMapsInitialized)
    /\ UNCHANGED <<currentPage, tripResult, appKeys, placesLog, localStorage, clock>>
    /\ UNCHANGED mockedFuelStations
    /\ Views

\* the catch and finally blocks for an error that needs no key dialog
PlanFailed_toResults(i, message) ==
    /\ alertMsg' = "Failed to plan trip. Please check your locations and try again. "
    /\ tripResult' = Null
    /\ currentPage' = "RESULTS"
    /\ loading' = FALSE
    /\ inflight' = Remove(inflight, i)
    /\ UNCHANGED hasGenAIKey

PlanFailed(i, message) ==
    /\ alertMsg' = "Failed to plan trip. Please check your locations and try again. "
    /\ tripResult' = Null
    /\ currentPage' = "HOME"
    /\ loading' = FALSE
    /\ inflight' = Remove(inflight, i)
    /\ UNCHANGED hasGenAIKey

\* the route lookup of operation i settles
RouteResponse(i, response) ==
    /\ i \in 1..Len(inflight)
    /\ inflight[i].pc = "route"
    /\ LET op == inflight[i]
           failed == response.rejected \/ response.status # "OK"
                        \/ response.routes = <<>>
           message == IF response.rejected THEN response.message
                      ELSE "Directions request failed"
       IN  IF failed
           THEN IF message = "Requested entity was not found."
                THEN /\ alertMsg' = "There was an issue with the API key or service configuration."
                     /\ IF aistudio
                        THEN \* await window.aistudio.openSelectKey()
                             /\ inflight' = [inflight EXCEPT ![i].pc = "selectKey"]
                             /\ UNCHANGED <<tripResult, currentPage, loading, hasGenAIKey>>
                        ELSE /\ tripResult' = Null
                             /\ currentPage' = "HOME"
                             /\ loading' = FALSE
                             /\ inflight' = Remove(inflight, i)
                             /\ UNCHANGED hasGenAIKey
                ELSE PlanFailed(i, message)
           ELSE LET leg == response.routes[1]
                    distanceKm == DistanceKm(leg)
                IN  /\ inflight' = [inflight EXCEPT ![i] =
                          [pc |-> "places", data |-> op.data,
                           distanceKm |-> distanceKm,
                           estimatedCost |-> EstimatedCost(op.data, distanceKm),
                           estimatedTime |-> EstimatedTime(leg),
                           routePath |-> leg.overview_path]]
                    /\ UNCHANGED <<tripResult, currentPage, loading, hasGenAIKey,
                                   alertMsg>>
    /\ UNCHANGED <<googleMapsInitialized, googleMapsLoadError, aistudio,
                   initPending, placesLog, localStorage, clock>>
    /\ UNCHANGED mockedFuelStations
    /\ Views

\* the key dialog opened by the catch block closes: resolved, the catch block
\* goes on; rejected, only the finally block runs
KeyDialogClosed_noFinally(i, resolved) ==
    /\ i \in 1..Len(inflight)
    /\ inflight[i].pc = "selectKey"
    /\ IF resolved
       THEN /\ hasGenAIKey' = TRUE
            /\ tripResult' = Null
            /\ currentPage' = "HOME"
            /\ loading' = FALSE
       ELSE UNCHANGED <<hasGenAIKey, tripResult, currentPage, loading>>
    /\ inflight' = Remove(inflight, i)
    /\ UNCHANGED <<googleMapsInitialized, googleMapsLoadError, aistudio,
                   initPending, placesLog, alertMsg, localStorage, clock>>
    /\ UNCHANGED mockedFuelStations
    /\ Views

KeyDialogClosed(i, resolved) ==
    /\ i \in 1..Len(inflight)
    /\ inflight[i].pc = "selectKey"
    /\ IF resolved
       THEN /\ hasGenAIKey' = TRUE
            /\ tripResult' = Null
            /\ currentPage' = "HOME"
       ELSE UNCHANGED <<hasGenAIKey, tripResult, currentPage>>
    /\ loading' = FALSE
    /\ inflight' = Remove(inflight, i)
    /\ UNCHANGED <<googleMapsInitialized, googleMapsLoadError, aistudio,
                   initPending, placesLog, alertMsg, localStorage, clock>>
    /\ UNCHANGED mockedFuelStations
    /\ Views

\* the nearbySearch callback of operation i runs, and with it the rest of
\* handlePlanTrip
PlacesCallback(i, response, rands) ==
    /\ i \in 1..Len(inflight)
    /\ inflight[i].pc = "places"
    /\ LET op == inflight[i]
           newTripResult ==
               [tripData |-> op.data, distanceKm |-> op.distanceKm,
                estimatedCost |-> op.estimatedCost,
                estimatedTime |-> op.estimatedTime, ecoTips |-> <<>>,
                nearbyStations |-> NearbyStations(op.data, response, rands),
                routePath |-> op.routePath]
       IN  /\ tripResult' = newTripResult
           /\ currentPage' = "RESULTS"
           /\ loading' = FALSE
           /\ inflight' = Remove(inflight, i)
           /\ placesLog' = response
           /\ mockedFuelStations' =
                 IF SearchSucceeded(response) THEN mockedFuelStations
                 ELSE MockListAfterFallback(op.data)
    /\ UNCHANGED <<appKeys, alertMsg, localStorage, clock>>
    /\ Views

-----------------------------------------------------------------------------
(* Navigation *)

SetPage_clearing(page) ==
    /\ currentPage' = page
    /\ tripResult' = Null
    /\ UNCHANGED <<loading, appKeys, inflight, placesLog, alertMsg,
                   localStorage, clock>>
    /\ UNCHANGED mockedFuelStations
    /\ Views

SetPage(page) ==
    /\ currentPage' = page
    /\ UNCHANGED <<tripResult, loading, appKeys, inflight, placesLog, alertMsg,
                   localStorage, clock>>
    /\ UNCHANGED mockedFuelStations
    /\ Views

\* ResultsPage: View Map
ViewMap == Screen = "Results" /\ SetPage("MAP")

\* MapPage: Back to Results
MapBack == Screen = "Map" /\ SetPage("RESULTS")

\* ResultsPage: Plan New Trip
BackToHome == Screen = "Results" /\ SetPage("HOME")

\* HistoryPage: onBack
HistoryBack == Screen = "History" /\ SetPage("HOME")

\* the header's Home and History buttons
NavHome == SetPage("HOME")

NavHistory_toMap == SetPage("MAP")

NavHistory == SetPage("HISTORY")

-----------------------------------------------------------------------------
(* Saving a trip *)

\* the dates the wall clock passes through, as toLocaleString() writes them
ClockDates == << <<1, 20, 2024>>, <<2, 1, 2024>> >>

ClockIds == <<"1705746000000", "1706782800000">>

Tick ==
    /\ clock < Len(ClockDates)
    /\ clock' = clock + 1
    /\ UNCHANGED <<currentPage, tripResult, loading, appKeys, inflight, placesLog,
                   alertMsg, mapView, historyView, localStorage,
                   mockedFuelStations>>

OrUnknown(name) == IF name = "" THEN "Unknown" ELSE name

HistoryEntry(result) ==
    [id |-> ClockIds[clock], date |-> ClockDates[clock],
     carModel |-> result.tripData.carModel,
     startLocationName |-> OrUnknown(result.tripData.startLocation.name),
     destinationName |-> OrUnknown(result.tripData.destination.name),
     distanceKm |-> result.distanceKm,
     estimatedCost |-> result.estimatedCost]

StoredHistory == IF localStorage = Null THEN <<>> ELSE JsonParse(localStorage)

\* [...existingHistory, historyEntry]
UpdatedHistory_replace(existingHistory, historyEntry) == <<historyEntry>>

UpdatedHistory(existingHistory, historyEntry) ==
    Append(existingHistory, historyEntry)

\* handleSaveTrip, from the Save Trip button of ResultsPage
SaveTrip ==
    /\ Screen = "Results"
    /\ Len(StoredHistory) < MaxSaves
    /\ localStorage' =
          JsonStringify(UpdatedHistory(StoredHistory, HistoryEntry(tripResult)))
    /\ alertMsg' = "Trip saved to history!"
    /\ UNCHANGED <<currentPage, tripResult, loading, appKeys, inflight, placesLog,
                   clock>>
    /\ UNCHANGED mockedFuelStations
    /\ Views

-----------------------------------------------------------------------------
(* The application *)

Init ==
    /\ currentPage = "SPLASH"
    /\ tripResult = Null
    /\ loading = FALSE
    /\ hasGenAIKey = FALSE
    /\ googleMapsInitialized = FALSE
    /\ googleMapsLoadError = FALSE
    /\ aistudio \in BOOLEAN
    /\ initPending = "genai"
    /\ inflight = <<>>
    /\ placesLog = None
    /\ alertMsg = ""
    /\ mapView = Unmounted
    /\ historyView = Unmounted
    /\ localStorage = Null
    /\ mockedFuelStations = MOCKED_FUEL_STATIONS
    /\ clock = 1

\* the collaborator responses the application is run against
AppRouteResponses(data) ==
    {RouteRejected("DIRECTIONS_ROUTE: ZERO_RESULTS"),
     RouteRejected("Requested entity was not found."),
     RouteResolved("NOT_FOUND", <<>>),
     RouteResolved("OK", <<RouteLeg(data, [value |-> 12000], [text |-> "15 mins"])>>)}

AppPlacesResponses(data) ==
    {PlacesResponse("OK", [places |-> Places(data, <<40>>)]),
     PlacesResponse("OK", [places |-> Places(data, <<150>>)]),
     PlacesResponse("UNKNOWN_ERROR", Null)}

Next ==
    \/ CheckGenAIKey
    \/ CheckGoogleMaps
    \/ SelectGenAIKey
    \/ SplashFinish
    \/ \E tripData \in FormTripData : HomePlanTrip(tripData)
    \/ \E i \in 1..Len(inflight) :
          \E response \in AppRouteResponses(inflight[i].data) :
             RouteResponse(i, response)
    \/ \E i \in 1..Len(inflight), resolved \in BOOLEAN : KeyDialogClosed(i, resolved)
    \/ \E i \in 1..Len(inflight) :
          \E response \in AppPlacesResponses(inflight[i].data) :
             PlacesCallback(i, response, ZeroRands(response))
    \/ ViewMap
    \/ MapBack
    \/ BackToHome
    \/ HistoryBack
    \/ NavHome
    \/ NavHistory
    \/ SaveTrip
    \/ Tick

Spec == Init /\ [][Next]_vars

\* the splash timer is restarted by each render of App, of which there are
\* finitely many while the splash screen shows, and then fires
SpecLive == Init /\ [][Next]_vars /\ WF_vars(SplashFinish)

\* the collaborators answer: every await of handlePlanTrip (the route lookup,
\* the key dialog, the nearbySearch callback) is eventually settled. An await
\* is pending whatever the answer will be and any answer ends it, so weak
\* fairness of the callback with one answer is weak fairness of the callback
SpecResponsive ==
    /\ Init
    /\ [][Next]_vars
    /\ WF_vars(\E i \in 1..Len(inflight) :
                  \E response \in AppRouteResponses(inflight[i].data) :
                     RouteResponse(i, response))
    /\ WF_vars(\E i \in 1..Len(inflight) : KeyDialogClosed(i, TRUE))
    /\ WF_vars(\E i \in 1..Len(inflight) :
                  PlacesCallback(i, PlacesResponse("OK", [places |-> <<>>]), <<>>))

-----------------------------------------------------------------------------
(* The planning operation on its own: App.handlePlanTrip has been called    *)
(* with any request, and every response of the collaborators is considered *)

InitCore ==
    /\ currentPage = "HOME"
    /\ tripResult = Null
    /\ loading = TRUE
    /\ hasGenAIKey = TRUE
    /\ googleMapsInitialized = TRUE
    /\ googleMapsLoadError = FALSE
    /\ aistudio = TRUE
    /\ initPending = "done"
    /\ \E data \in CoreTripData : inflight = <<NewOperation(data)>>
    /\ placesLog = None
    /\ alertMsg = ""
    /\ mapView = Unmounted
    /\ historyView = Unmounted
    /\ localStorage = Null
    /\ mockedFuelStations = MOCKED_FUEL_STATIONS
    /\ clock = 1

NextCore ==
    \/ \E i \in 1..Len(inflight) :
          \E response \in RouteResponses(inflight[i].data) :
             RouteResponse(i, response)
    \/ \E i \in 1..Len(inflight), resolved \in BOOLEAN : KeyDialogClosed(i, resolved)
    \/ \E i \in 1..Len(inflight) :
          \E response \in PlacesResponses(inflight[i].data, MaxPlaces) :
             \E rands \in Rands(response) : PlacesCallback(i, response, rands)
    \/ ViewMap
    \/ MapBack

SpecCore == InitCore /\ [][NextCore]_vars

-----------------------------------------------------------------------------
(* The history page over any stored history *)

HistoryDates == {<<1, 5, 2024>>, <<1, 20, 2024>>, <<2, 1, 2024>>, <<12, 30, 2023>>}

HistoryCosts == {Num(50), Num(75), Num(100)}

HistoryIds == <<"h1", "h2", "h3", "h4", "h5">>

StoredEntry(i, date, cost) ==
    [id |-> HistoryIds[i], date |-> date, carModel |-> "Civic",
     startLocationName |-> StartKarachi.name,
     destinationName |-> DestLahore.name,
     distanceKm |-> Num(12), estimatedCost |-> cost]

Histories ==
    UNION {{[i \in 1..n |-> StoredEntry(i, dates[i], costs[i])] :
               dates \in [1..n -> HistoryDates], costs \in [1..n -> HistoryCosts]} :
           n \in 0..MaxHistory}

InitHistory ==
    /\ currentPage = "HOME"
    /\ tripResult = Null
    /\ loading = FALSE
    /\ hasGenAIKey = TRUE
    /\ googleMapsInitialized = TRUE
    /\ googleMapsLoadError = FALSE
    /\ aistudio = TRUE
    /\ initPending = "done"
    /\ inflight = <<>>
    /\ placesLog = None
    /\ alertMsg = ""
    /\ mapView = Unmounted
    /\ historyView = Unmounted
    /\ localStorage \in {Null} \cup {JsonStringify(h) : h \in Histories}
    /\ mockedFuelStations = MOCKED_FUEL_STATIONS
    /\ clock = 1

NextHistory ==
    \/ NavHistory
    \/ HistoryBack
    \/ NavHome

SpecHistory == InitHistory /\ [][NextHistory]_vars

-----------------------------------------------------------------------------
(* Properties of the planning operation (SpecCore) *)

Planned == tripResult # Null

\* the place search behind the held result took the primary path
PrimaryPath == Planned /\ placesLog.status = "OK" /\ placesLog.results # Null

\* the place search behind the held result fell back to the mock stations
FallbackPath == Planned /\ ~(placesLog.status = "OK" /\ placesLog.results # Null)

Candidates == IF placesLog.results = Null THEN <<>> ELSE placesLog.results.places

\* a point's distance from the held result's destination, in 100 m arcs
ArcsFromDestination(location) ==
    Abs(location.lat - tripResult.tripData.destination.lat)

StationIds(stations) == {stations[i].id : i \in 1..Len(stations)}

\* C1: when the request's mileage is positive, the stored estimatedCost is
\* (distanceKm / mileage) * unit price, the unit price being the pricing
\* table's entry for the request's fuel type:
\* cost * mileage = distanceKm * price, cross-multiplied
C1_CostIsDistanceOverMileageTimesPrice ==
    (Planned /\ MileagePositive(tripResult.tripData.averageMileage)) =>
        LET cost    == tripResult.estimatedCost
            d       == tripResult.distanceKm
            mileage == tripResult.tripData.averageMileage
            price   == MOCKED_FUEL_PRICES[tripResult.tripData.fuelType]
        IN  /\ RSign(d) >= 0
            /\ cost.num * mileage.num * d.den * price.den
                  = d.num * price.num * cost.den * mileage.den

C1_Witness ==
    /\ Planned
    /\ tripResult.tripData.fuelType = "EV"
    /\ tripResult.tripData.averageMileage = Num(10)
    /\ tripResult.distanceKm = Num(12)
    /\ tripResult.estimatedCost = Num(48)

\* C2: an operation whose request has mileage <= 0 never yields a TripResult
\* (hence no cost value): it fails with an error shown to the user
C2_NonPositiveMileageRejected ==
    \A m \in {Num(0), Num(-1)} :
        ~(Planned /\ tripResult.tripData.averageMileage = m)

\* C3 (as stated): on the primary path the station list holds exactly the
\* candidates at most 10 km from the destination, one at exactly 10 km included
C3_KeepsWithinTenKmInclusive ==
    PrimaryPath =>
        StationIds(tripResult.nearbyStations) =
            {Candidates[i].place_id : i \in {j \in 1..Len(Candidates) :
                ArcsFromDestination(Candidates[j].location) <= 10 * RadiusKm}}

\* C3 (amended): on the primary path the station list holds exactly the
\* candidates less than 10 km from the destination; one at exactly 10 km is
\* discarded
C3_KeepsBelowTenKm ==
    PrimaryPath =>
        /\ StationIds(tripResult.nearbyStations) =
              {Candidates[i].place_id : i \in {j \in 1..Len(Candidates) :
                  ArcsFromDestination(Candidates[j].location) < 10 * RadiusKm}}
        /\ Len(tripResult.nearbyStations)
              = Cardinality(StationIds(tripResult.nearbyStations))

C3_Witness ==
    /\ PrimaryPath
    /\ Len(Candidates) = 2
    /\ ArcsFromDestination(Candidates[1].location) = 10 * RadiusKm
    /\ ArcsFromDestination(Candidates[2].location) = 40
    /\ StationIds(tripResult.nearbyStations) = {Candidates[2].place_id}

\* C4 (as stated): on the fallback path no station of the list lies beyond
\* the 10 km threshold
C4_FallbackFiltered ==
    FallbackPath =>
        \A i \in 1..Len(tripResult.nearbyStations) :
            ArcsFromDestination(tripResult.nearbyStations[i].location)
                <= 10 * RadiusKm

\* C4 (amended): on the fallback path no radius filter is applied: the list
\* holds all six mock stations, each with its distance from the destination
C4_FallbackKeepsEveryMockStation ==
    FallbackPath =>
        /\ Len(tripResult.nearbyStations) = Len(MOCKED_FUEL_STATIONS)
        /\ \A k \in 1..Len(MOCKED_FUEL_STATIONS) :
              \E i \in 1..Len(tripResult.nearbyStations) :
                 LET station == tripResult.nearbyStations[i]
                 IN  /\ station.id = MOCKED_FUEL_STATIONS[k].id
                     /\ station.location = MOCKED_FUEL_STATIONS[k].location
                     /\ station.fuelPrice = MOCKED_FUEL_STATIONS[k].fuelPrice
                     /\ station.distanceKm.num * 10
                           = ArcsFromDestination(station.location)
                               * station.distanceKm.den

C4_Witness ==
    /\ FallbackPath
    /\ tripResult.tripData.destination = DestLahore
    /\ Len(tripResult.nearbyStations) = 6
    /\ \A i \in 1..6 :
          ArcsFromDestination(tripResult.nearbyStations[i].location)
              > 10 * RadiusKm

\* C5: the station list of every TripResult is in ascending order of
\* distanceKm, on both paths, a station at distance 0 included
C5_StationsAscendingByDistance ==
    Planned =>
        \A i \in 1..(Len(tripResult.nearbyStations) - 1) :
            RLeq(tripResult.nearbyStations[i].distanceKm,
                 tripResult.nearbyStations[i + 1].distanceKm)

\* the first station of the list with the minimum unit price
FirstMinimumPriceId(stations) ==
    LET k == CHOOSE i \in 1..Len(stations) :
                /\ \A j \in 1..Len(stations) :
                      RLeq(stations[i].fuelPrice, stations[j].fuelPrice)
                /\ \A j \in 1..(i - 1) : stations[j].fuelPrice # stations[i].fuelPrice
    IN  stations[k].id

\* C6: for a non-empty station list, the green marker and the Cheapest badge
\* are both on the first station with the minimum unit price
C6_BestPriceIsFirstMinimum ==
    (mapView.mounted /\ tripResult.nearbyStations # <<>>) =>
        /\ mapView.green = {FirstMinimumPriceId(tripResult.nearbyStations)}
        /\ mapView.badges = {FirstMinimumPriceId(tripResult.nearbyStations)}

\* C7: when every candidate of the place search is discarded the station list
\* is empty, and for an empty station list the map page marks no best price:
\* no cheapest station, no green marker, no badge, no station card
C7_EmptyListHasNoBestPrice ==
    /\ (PrimaryPath /\ \A i \in 1..Len(Candidates) :
            ArcsFromDestination(Candidates[i].location) >= 10 * RadiusKm)
          => tripResult.nearbyStations = <<>>
    /\ (mapView.mounted /\ tripResult.nearbyStations = <<>>) =>
          /\ mapView.cheapestStation = Null
          /\ mapView.green = {}
          /\ mapView.badges = {}
          /\ mapView.cards = <<>>

C7_Witness ==
    /\ mapView.mounted
    /\ Len(Candidates) = 2
    /\ tripResult.nearbyStations = <<>>

\* C8 (as stated): a place search that returns zero candidates, or only
\* candidates that are discarded, yields an empty station list
C8_NoCandidatesYieldEmptyList ==
    (/\ Planned
     /\ placesLog.status \in {"OK", "ZERO_RESULTS"}
     /\ \A i \in 1..Len(Candidates) :
           ArcsFromDestination(Candidates[i].location) >= 10 * RadiusKm)
        => tripResult.nearbyStations = <<>>

\* C8 (amended): a search with status OK whose candidates are all discarded
\* (or whose result array is empty) yields an empty station list; a search
\* that reports no results by a ZERO_RESULTS status, or hands over no result
\* array, is treated as a failed search: the six mock stations are substituted
C8_EmptyOnlyWhenStatusOk ==
    Planned =>
        /\ (/\ placesLog.status = "OK"
            /\ placesLog.results # Null
            /\ \A i \in 1..Len(Candidates) :
                  ArcsFromDestination(Candidates[i].location) >= 10 * RadiusKm)
              => tripResult.nearbyStations = <<>>
        /\ (placesLog.status # "OK" \/ placesLog.results = Null)
              => StationIds(tripResult.nearbyStations)
                    = StationIds(MOCKED_FUEL_STATIONS)

C8_Witness ==
    /\ Planned
    /\ placesLog = PlacesResponse("ZERO_RESULTS", [places |-> <<>>])
    /\ Len(tripResult.nearbyStations) = 6

\* the points the held result's planning operation has measured between
MeasuredPoints ==
    {tripResult.tripData.startLocation, tripResult.tripData.destination}
    \cup {tripResult.nearbyStations[i].location :
             i \in 1..Len(tripResult.nearbyStations)}
    \cup {MOCKED_FUEL_STATIONS[i].location : i \in 1..Len(MOCKED_FUEL_STATIONS)}

ComparedDistances == {Num(0), Rat(1, 2), Num(12), Num(13), Num(1200)}

ComparedMileages == {Rat(1, 2), Num(10), Num(15), Num(16)}

\* C14: with distance >= 0, mileage > 0 and price > 0, the cost does not
\* decrease when the distance or the unit price grows, and does not increase
\* when the mileage grows: the cost of the held result is compared with the
\* cost of every request that differs from it in one of the three
C14_CostMonotone ==
    (Planned /\ MileagePositive(tripResult.tripData.averageMileage)) =>
        LET data == tripResult.tripData
            d    == tripResult.distanceKm
            cost == tripResult.estimatedCost
        IN  /\ \A d2 \in ComparedDistances :
                  /\ RLeq(d, d2) => RLeq(cost, EstimatedCost(data, d2))
                  /\ RLeq(d2, d) => RLeq(EstimatedCost(data, d2), cost)
            /\ \A f2 \in FuelType :
                  LET data2 == [data EXCEPT !.fuelType = f2]
                  IN  /\ RLeq(fuelPricePerUnit(data), fuelPricePerUnit(data2))
                         => RLeq(cost, EstimatedCost(data2, d))
                      /\ RLeq(fuelPricePerUnit(data2), fuelPricePerUnit(data))
                         => RLeq(EstimatedCost(data2, d), cost)
            /\ \A m2 \in ComparedMileages :
                  LET data2 == [data EXCEPT !.averageMileage = m2]
                  IN  /\ RLeq(data.averageMileage, m2)
                         => RLeq(EstimatedCost(data2, d), cost)
                      /\ RLeq(m2, data.averageMileage)
                         => RLeq(cost, EstimatedCost(data2, d))

C14_Witness ==
    /\ Planned
    /\ tripResult.tripData.fuelType = "Diesel"
    /\ tripResult.tripData.averageMileage = Num(15)
    /\ tripResult.distanceKm = Num(12)
    /\ tripResult.estimatedCost = Num(216)

\* C15: on the primary path the unit price of every station of the list is
\* the pricing table's price for the fuel type of the request
C15_StationPriceIsTablePriceOfFuelType ==
    PrimaryPath =>
        \A i \in 1..Len(tripResult.nearbyStations) :
            tripResult.nearbyStations[i].fuelPrice
                = MOCKED_FUEL_PRICES[tripResult.tripData.fuelType]

\* C16: a planning operation with the same request and the same place-search
\* response as the one behind the held result produces the same station list,
\* whatever values Math.random() returns to it
C16_SameInputsSameStationList ==
    Planned =>
        \A rands \in Rands(placesLog) :
            NearbyStations(tripResult.tripData, placesLog, rands)
                = tripResult.nearbyStations

-----------------------------------------------------------------------------
(* Properties of the monthly aggregation (SpecHistory) *)

\* the month and year of an entry's date, as <<month, year>>
EntryMonth(entry) == <<entry.date[1], entry.date[3]>>

LabelMonth(label) ==
    <<CHOOSE m \in 1..12 : MonthShort[m] = label.mon, label.year>>

RECURSIVE CostOfMonth(_, _)
CostOfMonth(history, month) ==
    IF history = <<>> THEN Num(0)
    ELSE IF EntryMonth(Head(history)) = month
         THEN RAdd(Head(history).estimatedCost, CostOfMonth(Tail(history), month))
         ELSE CostOfMonth(Tail(history), month)

\* C9: the history page shows exactly one aggregate per month and year that
\* occurs among the stored entries, whose cost is the sum of the estimatedCost
\* of the entries of that month; an empty history gives no aggregate
C9_OneAggregatePerMonthWithSum ==
    historyView.mounted =>
        LET history  == StoredHistory
            expenses == historyView.monthlyExpenses
        IN  /\ {LabelMonth(expenses[i].month) : i \in 1..Len(expenses)}
                  = {EntryMonth(history[i]) : i \in 1..Len(history)}
            /\ Len(expenses)
                  = Cardinality({EntryMonth(history[i]) : i \in 1..Len(history)})
            /\ \A i \in 1..Len(expenses) :
                  expenses[i].cost
                      = CostOfMonth(history, LabelMonth(expenses[i].month))
            /\ (history = <<>> => expenses = <<>>)

C9_Witness ==
    /\ historyView.mounted
    /\ Len(StoredHistory) = 3
    /\ Len(historyView.monthlyExpenses) = 2
    /\ \E i \in 1..2 : historyView.monthlyExpenses[i].cost = Num(150)

\* C10: the aggregates are in ascending chronological order of their month,
\* whatever the order of the stored entries
C10_AggregatesChronological ==
    historyView.mounted =>
        \A i, j \in 1..Len(historyView.monthlyExpenses) :
            i < j =>
                LET a == LabelMonth(historyView.monthlyExpenses[i].month)
                    b == LabelMonth(historyView.monthlyExpenses[j].month)
                IN  a[2] * 12 + a[1] < b[2] * 12 + b[1]

C10_Witness ==
    /\ historyView.mounted
    /\ Len(StoredHistory) = 2
    /\ StoredHistory[1].date = <<2, 1, 2024>>
    /\ StoredHistory[2].date = <<1, 5, 2024>>
    /\ historyView.monthlyExpenses
          = << [month |-> [mon |-> "Jan", year |-> 2024], cost |-> Num(50)],
               [month |-> [mon |-> "Feb", year |-> 2024], cost |-> Num(75)] >>

-----------------------------------------------------------------------------
(* Properties of the history store (Spec) *)

\* C11: whenever Save Trip writes the store, the history that the History
\* page reads back from it ends with the entry that was appended, equal in
\* every field
C11_SavedEntryReadsBack ==
    [][localStorage' # localStorage =>
          LET read == HistoryMount(localStorage').tripHistory
          IN  /\ read # <<>>
              /\ read[Len(read)] = HistoryEntry(tripResult)]_vars

\* C12: every step that changes the store appends exactly one entry: the
\* entries stored before are a prefix of the new stored sequence, unchanged
\* and in the same order, and no other step touches the store
C12_HistoryAppendOnly ==
    [][localStorage' # localStorage =>
          /\ Len(StoredHistory') = Len(StoredHistory) + 1
          /\ SubSeq(StoredHistory', 1, Len(StoredHistory)) = StoredHistory]_vars

C12_Witness ==
    /\ Len(StoredHistory) = 2
    /\ StoredHistory[1].date = ClockDates[1]
    /\ StoredHistory[2].date = ClockDates[2]

-----------------------------------------------------------------------------
(* Properties of the page machine (Spec, SpecLive) *)

\* C17: the page starts at Splash and eventually leaves it; it leaves it for
\* Home unless the user has pressed the header's History button meanwhile
\* (so with no user action the page reached is Home); and a page that has
\* left Splash never returns to it
C17_SplashLeadsToHomeForGood ==
    /\ currentPage = "SPLASH"
    /\ <>(currentPage # "SPLASH")
    /\ [][/\ (currentPage = "SPLASH" /\ currentPage' \notin {"SPLASH", "HOME"})
             => NavHistory
          /\ currentPage # "SPLASH" => currentPage' # "SPLASH"]_vars

C17_Witness ==
    /\ currentPage = "HOME"
    /\ initPending = "genai"
    /\ historyView = Unmounted

\* C18: at most one planning operation is in flight; while one is, loading is
\* set and the spinner replaces every page, so the Home form cannot start a
\* second one, whatever the user does with the header buttons meanwhile
C18_AtMostOneInFlight ==
    /\ Len(inflight) <= 1
    /\ inflight # <<>> => (loading /\ Screen = "Spinner")

C18_Witness ==
    /\ Len(inflight) = 1
    /\ inflight[1].pc = "places"
    /\ currentPage = "HISTORY"
    /\ tripResult # Null

\* C19: the held tripResult changes only in a step that completes a planning
\* operation, which either replaces it by the operation's result (page
\* Results) or clears it (page Home); every other step, the navigation
\* buttons and Save Trip among them, leaves it as it is
C19_TripResultChangesOnlyOnCompletion ==
    [][tripResult' # tripResult =>
          /\ Len(inflight') = Len(inflight) - 1
          /\ \/ tripResult' = Null /\ currentPage' = "HOME"
             \/ /\ tripResult' # Null
                /\ currentPage' = "RESULTS"
                /\ \E i \in 1..Len(inflight) :
                      /\ inflight[i].pc = "places"
                      /\ tripResult'.tripData = inflight[i].data
                      /\ tripResult'.estimatedCost = inflight[i].estimatedCost]_vars

C19_Witness ==
    /\ tripResult # Null
    /\ localStorage # Null
    /\ mapView = Unmounted
    /\ currentPage = "HISTORY"
    /\ historyView.mounted
    /\ inflight = <<>>

\* C20: every planning operation started from the Home form carries a
\* mileage that is a number above 0, when its cost is computed and in the
\* result it yields: the form lets no request with a zero, negative or
\* non-numeric mileage through
C20_FormMileagePositive ==
    /\ \A i \in 1..Len(inflight) :
          /\ MileagePositive(inflight[i].data.averageMileage)
          /\ inflight[i].data.averageMileage \notin {NaN, Num(0), Num(-1)}
    /\ Planned =>
          /\ MileagePositive(tripResult.tripData.averageMileage)
          /\ tripResult.tripData.averageMileage \notin {NaN, Num(0), Num(-1)}

C20_Witness ==
    /\ Len(inflight) = 1
    /\ inflight[1].pc = "places"
    /\ inflight[1].data.averageMileage = Num(15)
    /\ inflight[1].estimatedCost = Num(224)

\* C22: a planning operation that ends without a route (the lookup threw,
\* answered with a status other than OK, or with no route) leaves no
\* TripResult: the step that ends it sets tripResult to null and the page to
\* Home
C22_RouteFailureClearsResult ==
    [][(/\ Len(inflight) = 1
        /\ inflight[1].pc \in {"route", "selectKey"}
        /\ inflight' = <<>>) =>
          /\ tripResult' = Null
          /\ currentPage' = "HOME"]_vars

\* C23: whenever the current page is Results or Map a TripResult is held,
\* whatever the interleaving of navigation, planning successes and planning
\* failures
C23_ResultPagesHoldAResult ==
    currentPage \in {"RESULTS", "MAP"} => tripResult # Null

\* the Map page after a failed operation and then a successful one
C23_Witness ==
    /\ currentPage = "MAP"
    /\ tripResult # Null
    /\ alertMsg = "Failed to plan trip. Please check your locations and try again. "
    /\ mapView # Unmounted

\* C24: every planning operation that is started eventually ends with the
\* loading flag cleared, whatever its outcome, when the collaborators answer;
\* and the flag is never set while no operation is in flight
C24_LoadingEventuallyCleared ==
    /\ [](inflight = <<>> => ~loading)
    /\ (inflight # <<>>) ~> (inflight = <<>> /\ ~loading)

\* no spinner after a route failure followed by a success on the fallback
\* stations
C24_Witness ==
    /\ inflight = <<>>
    /\ ~loading
    /\ alertMsg = "Failed to plan trip. Please check your locations and try again. "
    /\ FallbackPath
    /\ Screen = "Results"

\* C25: the page becomes Results only when a planning operation completes
\* with a result or by Back on the Map screen, and becomes Map only by View Map
\* on the Results screen; every other change of page, header navigation
\* included, leads to Home or History; and a completing operation sets the
\* page to Results from whatever page it finds, History included
C25_PageTransitions ==
    [][LET completes == /\ Len(inflight) = 1
                        /\ inflight[1].pc = "places"
                        /\ inflight' = <<>>
       IN  /\ completes => (currentPage' = "RESULTS" /\ tripResult' # Null)
           /\ (currentPage' = "RESULTS" /\ currentPage # "RESULTS") =>
                 (completes \/ (Screen = "Map" /\ UNCHANGED tripResult))
           /\ (currentPage' = "MAP" /\ currentPage # "MAP") =>
                 (Screen = "Results" /\ UNCHANGED tripResult)
           /\ (currentPage' # currentPage /\ ~completes
                  /\ Screen \notin {"Results", "Map"}) =>
                 currentPage' \in {"HOME", "HISTORY"}]_vars

\* the user went to History while the place search of an operation is pending
C25_Witness ==
    /\ Len(inflight) = 1
    /\ inflight[1].pc = "places"
    /\ currentPage = "HISTORY"
    /\ Screen = "Spinner"

====
